---- MODULE Spec2Model ----
(***************************************************************************)
(* Universal Document Reader (src/app.py): one run of the script over a    *)
(* batch of uploaded files.  Each file is staged to a temporary path,      *)
(* converted, the temporary path is removed and the result panel is        *)
(* rendered.  File names are sequences of one-character strings so that    *)
(* os.path.splitext and str.replace are computed as Python computes them.  *)
(***************************************************************************)
EXTENDS Integers, Sequences, FiniteSets, TLC

(* ------------------------------ bounds --------------------------------- *)

\* largest batch the upload widget hands to the script
MaxFiles == 2

\* number of distinct names the temp-file allocator may pick from
NumTmpNames == 2

(* ------------------------- Python values ------------------------------- *)

\* Python None
None == [tag |-> "None"]

\* a Python str holding the characters s
Str(s) == [tag |-> "str", val |-> s]

\* Python truthiness of None, a str, or any other object (a result object, a
\* formatted message with literal text)
Truthy(v) ==
    IF v.tag = "None" THEN FALSE
    ELSE IF v.tag = "str" THEN Len(v.val) > 0
    ELSE TRUE

\* str.encode('utf-8') of one character
Utf8Char(c) ==
    IF c = "h" THEN <<104>>
    ELSE IF c = "i" THEN <<105>>
    ELSE IF c = "e_acute" THEN <<195, 169>>
    ELSE <<63>>

RECURSIVE encode_utf8(_)
\* str.encode('utf-8'): the concatenation of the characters' encodings
encode_utf8(s) ==
    IF s = <<>> THEN <<>> ELSE Utf8Char(Head(s)) \o encode_utf8(Tail(s))

(* --------------------------- string helpers ---------------------------- *)

\* str.rfind(c), 1-based; 0 when c does not occur
rfind(p, c) ==
    LET hits == {k \in 1..Len(p) : p[k] = c}
    IN  IF hits = {} THEN 0 ELSE CHOOSE k \in hits : \A j \in hits : j <= k

\* os.path.splitext: split at the last dot of the last path component,
\* ignoring leading dots; returns <<root, ext>>
splitext(p) ==
    LET sepIndex == rfind(p, "/")
        dotIndex == rfind(p, ".")
    IN  IF /\ dotIndex > sepIndex
           /\ \E k \in (sepIndex + 1)..(dotIndex - 1) : p[k] # "."
        THEN <<SubSeq(p, 1, dotIndex - 1), SubSeq(p, dotIndex, Len(p))>>
        ELSE <<p, <<>>>>

\* s starts with the characters of pre
StartsWith(s, pre) ==
    Len(s) >= Len(pre) /\ SubSeq(s, 1, Len(pre)) = pre

\* s ends with the characters of suf
EndsWith(s, suf) ==
    Len(s) >= Len(suf) /\ SubSeq(s, Len(s) - Len(suf) + 1, Len(s)) = suf

RECURSIVE replace(_, _, _)
\* str.replace(old, new): every non-overlapping occurrence, left to right
replace(s, old, new) ==
    IF s = <<>> THEN <<>>
    ELSE IF StartsWith(s, old)
         THEN new \o replace(SubSeq(s, Len(old) + 1, Len(s)), old, new)
         ELSE <<Head(s)>> \o replace(Tail(s), old, new)

(* ----------------------- file-name computations ------------------------ *)

\* "_converted.md"
ConvertedMdSuffix == <<"_", "c", "o", "n", "v", "e", "r", "t", "e", "d", ".", "m", "d">>

\* get_converted_filename: the root of the name followed by "_converted.md"
get_converted_filename(original_filename) ==
    splitext(original_filename)[1] \o ConvertedMdSuffix

\* file_name of the text download: new_filename.replace(".md", ".txt")
TxtFileName(new_filename) ==
    replace(new_filename, <<".", "m", "d">>, <<".", "t", "x", "t">>)

\* key of the preview text area: f"preview_{uploaded_file.name}"
PreviewKey(name) ==
    <<"p", "r", "e", "v", "i", "e", "w", "_">> \o name

(* ------------------------------ inputs --------------------------------- *)

\* the extensions the upload widget accepts
type ==
    { <<"d", "o", "c", "x">>, <<"x", "l", "s", "x">>, <<"p", "p", "t", "x">>,
      <<"p", "d", "f">>, <<"h", "t", "m", "l">>, <<"h", "t", "m">> }

\* the upload widget accepts a name that ends in "." and an allowed extension
Accepted(name) == \E t \in type : EndsWith(name, <<".">> \o t)

\* file names a user may offer: a.pdf, a.md.pdf, b.docx, c.txt
OfferedNames ==
    { <<"a", ".", "p", "d", "f">>,
      <<"a", ".", "m", "d", ".", "p", "d", "f">>,
      <<"b", ".", "d", "o", "c", "x">>,
      <<"c", ".", "t", "x", "t">> }

\* the two exceptions the converter may raise
Exceptions ==
    { [tag |-> "exc", type |-> "ValueError", msg |-> "corrupt header"],
      [tag |-> "exc", type |-> "TimeoutError", msg |-> "timed out"] }

\* what MarkItDown().convert does with a file's bytes: a result with text, a
\* result with empty text, a result without text, a falsy result, or a raise
ConvBehaviours ==
    { [kind |-> "returns", result |-> [tag |-> "result", text_content |-> Str(<<"h", "i", "e_acute">>)]],
      [kind |-> "returns", result |-> [tag |-> "result", text_content |-> Str(<<>>)]],
      [kind |-> "returns", result |-> [tag |-> "result", text_content |-> None]],
      [kind |-> "returns", result |-> None] }
    \cup { [kind |-> "raises", exc |-> e] : e \in Exceptions }

\* an uploaded file: its name and how the converter behaves on its bytes
UploadedFiles ==
    { [name |-> n, conv |-> c] : n \in {m \in OfferedNames : Accepted(m)}, c \in ConvBehaviours }

\* every batch of at most MaxFiles accepted files
Batches == UNION { [1..n -> UploadedFiles] : n \in 0..MaxFiles }

\* the paths tempfile.NamedTemporaryFile may allocate for a suffix
TmpPaths(suffix) == { [tag |-> "path", id |-> k, suffix |-> suffix] : k \in 1..NumTmpNames }

(* ------------------------------- state --------------------------------- *)

VARIABLES
    uploaded_files,  \* the batch returned by st.file_uploader
    idx,             \* 1-based position of the for loop in uploaded_files
    pc,              \* the statement the script is at
    disk,            \* the temporary paths that exist on disk
    tmp_file,        \* the open NamedTemporaryFile inside the with block, or None
    tmp_file_path,   \* process_file's local tmp_file_path, or None
    text_content,    \* process_file's local text_content
    error_message,   \* process_file's local error_message
    content,         \* the script's content (line 96)
    error,           \* the script's error (line 96)
    panels,          \* what has been rendered, one expander per file begun
    console,         \* the lines printed to the developer console
    convertCalls,    \* the indexes of the files md.convert was invoked on, in order
    staged,          \* per file, the temporary path created for it, or None
    raised,          \* per file, the exception raised while processing it, or None
    returned,        \* per file, the pair process_file returned, or None
    escaped          \* the exception that ended the script run, or None

vars == <<uploaded_files, idx, pc, disk, tmp_file, tmp_file_path, text_content,
          error_message, content, error, panels, console, convertCalls,
          staged, raised, returned, escaped>>

locals == <<tmp_file, tmp_file_path, text_content, error_message>>

N == Len(uploaded_files)

\* the file the loop is at
uploaded_file == uploaded_files[idx]

\* the error raised by a failing temp-file creation or write
StagingError == [tag |-> "exc", type |-> "OSError", msg |-> "No space left on device"]

\* the error Streamlit raises when a widget id is registered twice
DuplicateWidget == [tag |-> "exc", type |-> "DuplicateWidgetID", msg |-> "duplicate widget"]

Init ==
    /\ uploaded_files \in Batches
    /\ idx = 1
    /\ pc = "start"
    /\ disk = {}
    /\ tmp_file = None
    /\ tmp_file_path = None
    /\ text_content = None
    /\ error_message = None
    /\ content = None
    /\ error = None
    /\ panels = <<>>
    /\ console = <<>>
    /\ convertCalls = <<>>
    /\ staged = [i \in 1..N |-> None]
    /\ raised = [i \in 1..N |-> None]
    /\ returned = [i \in 1..N |-> None]
    /\ escaped = None

(* --------------------------- the batch loop ---------------------------- *)

\* lines 88-89: a non-empty batch enters the loop, an empty one skips it
StartBatch ==
    /\ pc = "start"
    /\ pc' = IF N > 0 THEN "loop" ELSE "footer"
    /\ UNCHANGED <<uploaded_files, idx, disk, locals, content, error, panels,
                   console, convertCalls, staged, raised, escaped,
                   returned>>

\* lines 91-96: the next file's expander and spinner open, process_file is called
BeginFile ==
    /\ pc = "loop"
    /\ idx <= N
    /\ panels' = Append(panels, [name |-> uploaded_file.name, branch |-> "none",
                                 error |-> None, downloads |-> <<>>, previews |-> <<>>])
    /\ pc' = "create"
    /\ UNCHANGED <<uploaded_files, idx, disk, locals, content, error,
                   console, convertCalls, staged, raised, escaped,
                   returned>>

\* lines 136-137: the loop is over, the footer is drawn and the run ends
Footer ==
    /\ \/ pc = "footer"
       \/ pc = "loop" /\ idx > N
    /\ pc' = "done"
    /\ UNCHANGED <<uploaded_files, idx, disk, locals, content, error, panels,
                   console, convertCalls, staged, raised, escaped,
                   returned>>

(* ----------------------------- process_file ---------------------------- *)

\* lines 30-32: NamedTemporaryFile(delete=False, suffix=suffix) creates a file
\* under a name that is not on disk
CreateTemp ==
    /\ pc = "create"
    /\ \E path \in TmpPaths(splitext(uploaded_file.name)[2]) :
          /\ path \notin disk
          /\ disk' = disk \cup {path}
          /\ tmp_file' = path
          /\ staged' = [staged EXCEPT ![idx] = path]
    /\ pc' = "write"
    /\ UNCHANGED <<uploaded_files, idx, tmp_file_path, text_content, error_message,
                   content, error, panels, console, convertCalls, raised, escaped,
                   returned>>

\* line 32 raising: no file is created; the call is outside the try block, so
\* the exception leaves process_file and ends the script run
CreateTempFails ==
    /\ pc = "create"
    /\ raised' = [raised EXCEPT ![idx] = StagingError]
    /\ escaped' = StagingError
    /\ pc' = "crashed"
    /\ UNCHANGED <<uploaded_files, idx, disk, locals, content, error, panels,
                   console, convertCalls, staged,
                   returned>>

\* lines 33-34: the bytes are written, the path is kept and the with block
\* closes the file (delete=False leaves it on disk); line 36-37 set the locals
WriteTemp ==
    /\ pc = "write"
    /\ tmp_file_path' = tmp_file
    /\ tmp_file' = None
    /\ text_content' = None
    /\ error_message' = None
    /\ pc' = "convert"
    /\ UNCHANGED <<uploaded_files, idx, disk, content, error, panels, console,
                   convertCalls, staged, raised, escaped,
                   returned>>

\* line 33 raising: the with block closes the file without deleting it, and
\* the exception leaves process_file before the try block is entered
WriteTempFails ==
    /\ pc = "write"
    /\ tmp_file' = None
    /\ raised' = [raised EXCEPT ![idx] = StagingError]
    /\ escaped' = StagingError
    /\ pc' = "crashed"
    /\ UNCHANGED <<uploaded_files, idx, disk, tmp_file_path, text_content,
                   error_message, content, error, panels, console, convertCalls,
                   staged,
                   returned>>

\* ExtractText without the empty-string fallback of line 55
ExtractTextNoFallback(result) ==
    IF Truthy(result) /\ Truthy(result.text_content)
    THEN result.text_content
    ELSE None

\* ExtractText testing only the result object, not its text
ExtractTextUnchecked(result) ==
    IF Truthy(result)
    THEN result.text_content
    ELSE Str(<<>>)

\* lines 51-55: the result's text, or the empty string when there is none
ExtractText(result) ==
    IF Truthy(result) /\ Truthy(result.text_content)
    THEN result.text_content
    ELSE Str(<<>>)

\* ExceptHandler putting the exception text into the user-facing message
ExceptHandlerLeaking(name, e) ==
    [error_message |-> [tag |-> "fstr",
                        template |-> "Could not read {}: {}",
                        args |-> <<name, e.msg>>],
     printed |-> [template |-> "Error processing {}: {}", name |-> name, detail |-> e]]

\* lines 57-62: the handler's user-facing message and its console line
ExceptHandler(name, e) ==
    [error_message |-> [tag |-> "fstr",
                        template |-> "Could not read {}. Please check the format.",
                        args |-> <<name>>],
     printed |-> [template |-> "Error processing {}: {}", name |-> name, detail |-> e]]

\* lines 39-62: the converter is invoked on the staged path; its text is
\* extracted, or its exception is caught by the handler
Convert ==
    /\ pc = "convert"
    /\ convertCalls' = Append(convertCalls, idx)
    /\ LET conv == uploaded_file.conv IN
       IF conv.kind = "returns"
       THEN /\ text_content' = ExtractText(conv.result)
            /\ UNCHANGED <<error_message, console, raised>>
       ELSE LET h == ExceptHandler(uploaded_file.name, conv.exc) IN
            /\ error_message' = h.error_message
            /\ console' = Append(console, h.printed)
            /\ raised' = [raised EXCEPT ![idx] = conv.exc]
            /\ UNCHANGED text_content
    /\ pc' = "finally"
    /\ UNCHANGED <<uploaded_files, idx, disk, tmp_file, tmp_file_path, content,
                   error, panels, staged, escaped,
                   returned>>

\* RemoveTemp leaving the path on disk
RemoveTempSkipped(d, path) == d

\* lines 66-67: os.remove of the path if os.path.exists says it is there
RemoveTemp(d, path) == IF path \in d THEN d \ {path} ELSE d

\* lines 64-67: the finally block removes the staged path
Cleanup ==
    /\ pc = "finally"
    /\ disk' = RemoveTemp(disk, tmp_file_path)
    /\ pc' = "return"
    /\ UNCHANGED <<uploaded_files, idx, locals, content, error, panels, console,
                   convertCalls, staged, raised, escaped,
                   returned>>

\* lines 69 and 96: process_file returns the pair, the script unpacks it
ReturnPair ==
    /\ pc = "return"
    /\ returned' = [returned EXCEPT ![idx] =
                       [tag |-> "pair", text_content |-> text_content,
                        error_message |-> error_message]]
    /\ content' = text_content
    /\ error' = error_message
    /\ tmp_file_path' = None
    /\ text_content' = None
    /\ error_message' = None
    /\ pc' = "render"
    /\ UNCHANGED <<uploaded_files, idx, disk, tmp_file, panels, console,
                   convertCalls, staged, raised, escaped>>

(* ------------------------------ rendering ------------------------------ *)

\* the panel of the file the loop is at
SetPanel(p) == [panels EXCEPT ![idx] = p]

\* the generated ids of the download buttons rendered so far in this run
DownloadIds ==
    { [label |-> d.label, file_name |-> d.file_name, mime |-> d.mime] :
        d \in UNION { {p.downloads[k] : k \in 1..Len(p.downloads)} :
                        p \in {panels[i] : i \in 1..Len(panels)} } }

\* the keys of the preview text areas rendered so far in this run
PreviewKeys ==
    UNION { {p.previews[k].key : k \in 1..Len(p.previews)} :
              p \in {panels[i] : i \in 1..Len(panels)} }

\* line 99: the branch the script takes on the returned pair
Branch(err) == IF Truthy(err) THEN "error" ELSE "success"

\* lines 99-100: the error branch shows the message; the loop moves on
RenderError ==
    /\ pc = "render"
    /\ Branch(error) = "error"
    /\ panels' = SetPanel([panels[idx] EXCEPT !.branch = "error", !.error = error])
    /\ idx' = idx + 1
    /\ pc' = "loop"
    /\ UNCHANGED <<uploaded_files, disk, locals, content, error, console,
                   convertCalls, staged, raised, escaped,
                   returned>>

\* lines 103-125: the two download buttons of a converted file
DownloadButtons(name, text) ==
    LET new_filename == get_converted_filename(name)
        file_data == encode_utf8(text.val)
    IN  << [label |-> "Download as Markdown (.md)", data |-> file_data,
            file_name |-> new_filename, mime |-> "text/markdown"],
           [label |-> "Download as Text (.txt)", data |-> file_data,
            file_name |-> TxtFileName(new_filename), mime |-> "text/plain"] >>

\* the first button's generated id is already registered in this run
DownloadIdTaken ==
    LET b == DownloadButtons(uploaded_file.name, content)[1]
    IN  [label |-> b.label, file_name |-> b.file_name, mime |-> b.mime] \in DownloadIds

\* lines 101-125: the success branch draws the two download buttons.  Whether
\* Streamlit rejects a button whose generated id repeats depends on its
\* version, so a repeat may also be drawn.
RenderDownloads ==
    /\ pc = "render"
    /\ Branch(error) = "success"
    /\ IF content.tag = "str"
       THEN /\ panels' = SetPanel([panels[idx] EXCEPT
                            !.branch = "success",
                            !.downloads = DownloadButtons(uploaded_file.name, content)])
            /\ pc' = "preview"
            /\ UNCHANGED escaped
       ELSE \* None has no encode
            /\ panels' = SetPanel([panels[idx] EXCEPT !.branch = "success"])
            /\ escaped' = [tag |-> "exc", type |-> "AttributeError", msg |-> "encode"]
            /\ pc' = "crashed"
    /\ UNCHANGED <<uploaded_files, idx, disk, locals, content, error, console,
                   convertCalls, staged, raised,
                   returned>>

\* lines 113-118 raising: Streamlit rejects the first button because its
\* generated id repeats, which ends the script run
RenderDownloadsDuplicate ==
    /\ pc = "render"
    /\ Branch(error) = "success"
    /\ content.tag = "str"
    /\ DownloadIdTaken
    /\ panels' = SetPanel([panels[idx] EXCEPT !.branch = "success"])
    /\ escaped' = DuplicateWidget
    /\ pc' = "crashed"
    /\ UNCHANGED <<uploaded_files, idx, disk, locals, content, error, console,
                   convertCalls, staged, raised,
                   returned>>

\* lines 128-134: the preview text area, keyed by the file name; the loop
\* moves on
RenderPreview ==
    /\ pc = "preview"
    /\ PreviewKey(uploaded_file.name) \notin PreviewKeys
    /\ panels' = SetPanel([panels[idx] EXCEPT
                     !.previews = << [key |-> PreviewKey(uploaded_file.name),
                                      value |-> content] >>])
    /\ idx' = idx + 1
    /\ pc' = "loop"
    /\ UNCHANGED <<uploaded_files, disk, locals, content, error, console,
                   convertCalls, staged, raised, escaped,
                   returned>>

\* line 129 raising: Streamlit rejects a widget key used twice in one run,
\* which ends the script run
RenderPreviewDuplicate ==
    /\ pc = "preview"
    /\ PreviewKey(uploaded_file.name) \in PreviewKeys
    /\ escaped' = DuplicateWidget
    /\ pc' = "crashed"
    /\ UNCHANGED <<uploaded_files, idx, disk, locals, content, error, panels,
                   console, convertCalls, staged, raised,
                   returned>>

(* --------------------------- specification ----------------------------- *)

Next ==
    \/ StartBatch
    \/ BeginFile
    \/ CreateTemp
    \/ CreateTempFails
    \/ WriteTemp
    \/ WriteTempFails
    \/ Convert
    \/ Cleanup
    \/ ReturnPair
    \/ RenderError
    \/ RenderDownloads
    \/ RenderDownloadsDuplicate
    \/ RenderPreview
    \/ RenderPreviewDuplicate
    \/ Footer

Spec == Init /\ [][Next]_vars

TypeOK ==
    /\ pc \in {"start", "loop", "create", "write", "convert", "finally", "return",
               "render", "preview", "footer", "done", "crashed"}
    /\ idx \in 1..(N + 1)
    /\ Len(panels) <= N

(* ------------------------------ properties ----------------------------- *)

\* process_file has finished for file i, by returning or by raising
Finished(i) ==
    \/ i < idx
    \/ i = idx /\ pc \in {"render", "preview", "crashed"}

\* the script run is over
RunEnded == pc \in {"done", "crashed"}

\* the converter yields no content for file i: a falsy result, or a result
\* whose text is None or empty
NoContent(i) ==
    /\ uploaded_files[i].conv.kind = "returns"
    /\ \/ uploaded_files[i].conv.result.tag = "None"
       \/ /\ uploaded_files[i].conv.result.tag = "result"
          /\ \/ uploaded_files[i].conv.result.text_content.tag = "None"
             \/ /\ uploaded_files[i].conv.result.text_content.tag = "str"
                /\ uploaded_files[i].conv.result.text_content.val = <<>>

\* C1: once process_file has finished for a file, by returning or by raising,
\* the temporary file created for it is no longer on disk.
C1_StagedFileRemoved ==
    \A i \in 1..N :
        (Finished(i) /\ staged[i].tag # "None") => staged[i] \notin disk

\* C2: an exception raised while staging or converting a file makes
\* process_file return the per-file error message; it never leaves process_file.
C2_ExceptionBecomesMessage ==
    \A i \in 1..N :
        (Finished(i) /\ raised[i].tag # "None") =>
            /\ returned[i].tag = "pair"
            /\ returned[i].error_message.tag # "None"

\* C3: a failure on one file never stops the loop: when the run is over every
\* other file has been rendered, and a batch with exactly one failing file
\* shows N-1 success panels and one error panel.
C3_FailureDoesNotStopLoop ==
    RunEnded =>
        LET bad == {i \in 1..N : raised[i].tag # "None"}
            shown(b) == {i \in 1..Len(panels) : panels[i].branch = b}
        IN  /\ \A i \in bad : \A j \in (1..N) \ {i} :
                  j <= Len(panels) /\ panels[j].branch # "none"
            /\ Cardinality(bad) = 1 =>
                  /\ Cardinality(shown("success")) = N - 1
                  /\ Cardinality(shown("error")) = 1

\* C4: whenever process_file returns, exactly one of text_content and
\* error_message is set, and the error branch is rendered exactly when
\* error_message is set, the download/preview branch exactly when
\* text_content is set.
C4_ExactlyOneOfTextAndError ==
    \A i \in 1..N :
        returned[i].tag = "pair" =>
            /\ (returned[i].text_content.tag = "None") # (returned[i].error_message.tag = "None")
            /\ (i <= Len(panels) /\ panels[i].branch # "none") =>
                  /\ panels[i].branch = "error" <=> returned[i].error_message.tag # "None"
                  /\ panels[i].branch = "success" <=> returned[i].text_content.tag # "None"

\* a returned pair has been rendered on both kinds of branch
C4_Witness ==
    /\ \E i \in 1..Len(panels) : panels[i].branch = "error" /\ returned[i].tag = "pair"
    /\ \E i \in 1..Len(panels) : panels[i].branch = "success" /\ Len(panels[i].previews) = 1

\* "_converted.txt", the ending the text download is expected to have
ConvertedTxtSuffix == <<"_", "c", "o", "n", "v", "e", "r", "t", "e", "d", ".", "t", "x", "t">>

\* C5: the Markdown download is named {stem}_converted.md and the text
\* download {stem}_converted.txt, the stem being the file name without its
\* last extension, also when the stem contains ".md".
C5_DownloadNames ==
    \A i \in 1..Len(panels) :
        Len(panels[i].downloads) = 2 =>
            LET name == panels[i].name
                stem == SubSeq(name, 1, rfind(name, ".") - 1)
            IN  /\ panels[i].downloads[1].file_name = stem \o ConvertedMdSuffix
                /\ panels[i].downloads[2].file_name = stem \o ConvertedTxtSuffix

\* C6: the message shown for a failed file does not depend on the exception:
\* two failures on the same file name show the identical message, and the
\* exception goes to the console.
C6_MessageIndependentOfException ==
    /\ \A i, j \in 1..Len(panels) :
          (/\ panels[i].branch = "error"
           /\ panels[j].branch = "error"
           /\ panels[i].name = panels[j].name) => panels[i].error = panels[j].error
    /\ \A i \in 1..N :
          (returned[i].tag = "pair" /\ raised[i].tag # "None") =>
              \E k \in 1..Len(console) :
                  /\ console[k].name = uploaded_files[i].name
                  /\ console[k].detail = raised[i]

\* two error panels for the same file name whose converter raised different
\* exceptions
C6_Witness ==
    \E i, j \in 1..Len(panels) :
        /\ panels[i].branch = "error"
        /\ panels[j].branch = "error"
        /\ panels[i].name = panels[j].name
        /\ raised[i] # raised[j]

\* C7: in one run the converter is invoked exactly once per uploaded file, in
\* upload order and without retry, and a file's processing is complete before
\* the next file is staged.
C7_OncePerFileInOrder ==
    /\ \A k \in 1..Len(convertCalls) : convertCalls[k] = k
    /\ RunEnded => convertCalls = [i \in 1..N |-> i]
    /\ pc \in {"create", "write"} =>
          \A i \in 1..(idx - 1) : panels[i].branch # "none" /\ staged[i] \notin disk

C10_PreviewKeysDistinct ==
    LET ok == {i \in 1..N : returned[i].tag = "pair" /\ returned[i].text_content.tag # "None"}
    IN  /\ \A i, j \in ok :
              i # j => PreviewKey(uploaded_files[i].name) # PreviewKey(uploaded_files[j].name)
        /\ RunEnded => \A i \in ok : Len(panels[i].previews) = 1

====
